---- MODULE Spec2Model ----
(***************************************************************************)
(* Model of the image-collection ("catcher") subsystem of animate-coswap:  *)
(*   - the crawl-task REST handlers of backend/app/api/v1/catcher.py over  *)
(*     the crawl_tasks / collected_images tables,                          *)
(*   - the pure filters of BaseCrawler (filter_couples,                    *)
(*     filter_by_resolution),                                              *)
(*   - the paging loops of DanbooruCrawler.search, GelbooruCrawler.search  *)
(*     and PixivCrawler.search, with Pixiv authentication,                 *)
(*   - BaseCrawler._fetch_with_retry with _rate_limit, called by one       *)
(*     caller at a time.                                                   *)
(* Each part has its own specification over the shared variables.          *)
(***************************************************************************)
EXTENDS Integers, Sequences, FiniteSets, TLC

(* ---------------------------- bounds ----------------------------------- *)
MaxTasks == 2
MaxTime == 1
MaxRequests == 4
MaxImages == 2

(* ------------------------ optional values ------------------------------ *)
\* A nullable column / Optional[...] value: None is <<>>, a value x is <<x>>.
None == <<>>
Some(x) == <<x>>

VARIABLES
    crawl_tasks,        \* table crawl_tasks: sequence of rows, id = index
    collected_images,   \* table collected_images: sequence of rows, id = index
    now,                \* datetime.utcnow()
    last,               \* the last HTTP request and its response
    nreq,               \* number of HTTP requests served so far
    fImages,            \* filters: the list the caller holds
    fBounds,            \* filters: the bounds the caller passes
    fTrace,             \* filters: the calls made so far
    fArg,               \* filters: the list passed to the last call, after it
    fList,              \* filters: the list returned by the last call
    sLimit,             \* search: the limit argument
    sFileExt,           \* search: filters["file_ext"]
    sResults,           \* search: the local list results
    sPage,              \* search: the local page (Danbooru), pid (Gelbooru), offset (Pixiv)
    sOutcome,           \* search: "running", or how the call ended
    sFetchFailed,       \* search: a fetch of this call failed after all retries
    sAdapter,           \* search: the class of the crawler ("danbooru", ...)
    sUpstream,          \* search: the list the upstream holds, None when it answers anything
    sRequests,          \* search: pages requested so far (calls of _fetch_with_retry)
    sEmptySeen,         \* search: the upstream has answered with an empty page
    refresh_token,      \* pixiv: self.refresh_token is set
    access_token,       \* pixiv: self.access_token is set
    token_age,          \* pixiv: datetime.now() - self.token_expires_at in seconds, or None
    sAuthRequests,      \* pixiv: requests sent to the token endpoint
    sAuthFailed,        \* pixiv: _ensure_authenticated returned False
    crawler,            \* fetch: the class of the crawler instance
    config,             \* fetch: self.config
    clock,              \* fetch: datetime.now(), in tenths of a second
    last_request_time,  \* fetch: self._last_request_time
    semaphore,          \* fetch: free slots of self._semaphore
    pc,                 \* fetch: position of the caller in _fetch_with_retry
    max_retries,        \* fetch: the argument max_retries of the call
    attempt,            \* fetch: the loop variable attempt
    sleep_until,        \* fetch: the time the pending asyncio.sleep ends at the earliest
    statuses,           \* fetch: what each session.get of the call ended with
    backoff_slept,      \* fetch: time the call spent in its 429 sleeps
    result,             \* fetch: what the call returned
    ncalls,             \* fetch: number of calls of _fetch_with_retry so far
    slept,              \* fetch: time the call asked to sleep since its last attempt ended
    co,                 \* concurrent fetches: the state of each coroutine
    inflight,           \* concurrent requests: the state of each request being served
    built               \* ImageMetadata: the records built so far

taskVars == <<crawl_tasks, collected_images, now, last, nreq>>
filterVars == <<fImages, fBounds, fTrace, fArg, fList>>
searchVars == <<sLimit, sFileExt, sResults, sPage, sOutcome, sFetchFailed, sAdapter,
                sUpstream, sRequests, sEmptySeen, refresh_token, access_token, token_age,
                sAuthRequests, sAuthFailed>>
fetchVars == <<crawler, config, clock, last_request_time, semaphore, pc, max_retries,
               attempt, sleep_until, statuses, backoff_slept, result, ncalls, slept>>
extraVars == <<co, inflight, built>>
vars == <<taskVars, filterVars, searchVars, fetchVars, extraVars>>

(* ---------------------- request inputs --------------------------------- *)
SourceInputs == {"Danbooru", "invalid_source"}
LimitInputs == {0, 1000, 1001}
QueryInputs == {"", "1boy_1girl"}
UrlInputs == {"u1"}
TaskIds == 1..MaxTasks

\* str.lower() on the source types the requests carry
lower(s) == CASE s = "Danbooru" -> "danbooru"
              [] OTHER -> s

valid_sources == {"pixiv", "danbooru", "gelbooru"}

\* len() of the query strings the requests carry
StrLen(s) == IF s = "" THEN 0 ELSE 1

\* CrawlTaskCreate with the upper bound of limit (le=1000) left out
CrawlTaskCreate_no_upper_bound(query, limit) == StrLen(query) >= 1 /\ limit >= 1

\* pydantic validation of the request body (422 before the handler runs)
CrawlTaskCreate(query, limit) == StrLen(query) >= 1 /\ limit >= 1 /\ limit <= 1000

\* a new crawl_tasks row with the column defaults
CrawlTask(source_type, query, limit) ==
    [ source_type      |-> source_type,
      search_query     |-> query,
      target_count     |-> limit,
      status           |-> "pending",
      images_collected |-> 0,
      images_saved     |-> 0,
      images_filtered  |-> 0,
      progress         |-> 0,
      error_message    |-> None,
      started_at       |-> None,
      paused_at        |-> None,
      completed_at     |-> None,
      created_at       |-> now ]

\* a new collected_images row with the column defaults
CollectedImage(task, url) ==
    [ crawl_task_id     |-> task,
      source_url        |-> url,
      download_status   |-> "pending",
      saved_as_template |-> FALSE ]

Exists(t) == t \in 1..Len(crawl_tasks)

\* the response sent, and the request logged; arg is <<source_type, limit>> of a
\* create request and <<>> otherwise
RespondTo(op, t, arg, code) ==
    /\ last' = [op |-> op, task |-> t, arg |-> arg, resp |-> code]
    /\ nreq' = nreq + 1
    /\ UNCHANGED <<filterVars, searchVars, fetchVars, extraVars>>

Respond(op, t, code) == RespondTo(op, t, <<>>, code)

\* the tables are empty and no request was served
TaskInit ==
    /\ crawl_tasks = <<>>
    /\ collected_images = <<>>
    /\ now = 0
    /\ last = [op |-> "none", task |-> 0, arg |-> <<>>, resp |-> 0]
    /\ nreq = 0

\* no filter was called
FilterIdle ==
    /\ fImages = <<>>
    /\ fBounds = [min_faces |-> 2, max_faces |-> 2, min_width |-> 800, min_height |-> 600]
    /\ fTrace = <<>>
    /\ fArg = <<>>
    /\ fList = <<>>

\* no search was called
SearchIdle ==
    /\ sLimit = 0
    /\ sFileExt = None
    /\ sResults = <<>>
    /\ sPage = 1
    /\ sOutcome = "idle"
    /\ sFetchFailed = FALSE
    /\ sAdapter = "danbooru"
    /\ sUpstream = None
    /\ sRequests = 0
    /\ sEmptySeen = FALSE
    /\ refresh_token = FALSE
    /\ access_token = FALSE
    /\ token_age = None
    /\ sAuthRequests = 0
    /\ sAuthFailed = FALSE

\* a crawler instance as DanbooruCrawler() builds it, with no fetch called
FetchIdle ==
    /\ crawler = "DanbooruCrawler"
    /\ config = [rate_limit_delay |-> 6, max_concurrent_requests |-> 3, timeout |-> 300]
    /\ clock = 0
    /\ last_request_time = -6
    /\ semaphore = 3
    /\ pc = "idle"
    /\ max_retries = 3
    /\ attempt = 0
    /\ sleep_until = 0
    /\ statuses = <<>>
    /\ backoff_slept = 0
    /\ result = "pending"
    /\ ncalls = 0
    /\ slept = 0

\* no coroutine is started, no request is being served, no record is built
ExtraIdle ==
    /\ co = <<>>
    /\ inflight = <<>>
    /\ built = <<>>

Init == TaskInit /\ FilterIdle /\ SearchIdle /\ FetchIdle /\ ExtraIdle

(* ------------------------- the clock ----------------------------------- *)
Tick ==
    /\ now < MaxTime
    /\ now' = now + 1
    /\ UNCHANGED <<crawl_tasks, collected_images, last, nreq>>
    /\ UNCHANGED <<filterVars, searchVars, fetchVars, extraVars>>

(* --------------------- POST /crawl-tasks ------------------------------- *)
create_crawl_task(source_type, query, limit, commitOk) ==
    /\ nreq < MaxRequests
    /\ IF ~ CrawlTaskCreate(query, limit)
       THEN /\ RespondTo("create", 0, <<source_type, limit>>, 422)
            /\ UNCHANGED <<crawl_tasks, collected_images, now>>
       ELSE IF lower(source_type) \notin valid_sources
       THEN /\ RespondTo("create", 0, <<source_type, limit>>, 400)
            /\ UNCHANGED <<crawl_tasks, collected_images, now>>
       ELSE IF commitOk
       THEN /\ Len(crawl_tasks) < MaxTasks
            /\ crawl_tasks' = Append(crawl_tasks,
                                     CrawlTask(lower(source_type), query, limit))
            /\ RespondTo("create", Len(crawl_tasks) + 1, <<source_type, limit>>, 201)
            /\ UNCHANGED <<collected_images, now>>
       ELSE /\ RespondTo("create", 0, <<source_type, limit>>, 500)
            /\ UNCHANGED <<crawl_tasks, collected_images, now>>

(* ------------------ POST /crawl-tasks/{id}/start ----------------------- *)
\* db: "ok" the commit succeeds; "fail_ok" the commit raises and the commit
\* of the except branch succeeds; "fail_fail" both commits raise. A failed
\* commit rolls the session back, which discards the pending status and
\* started_at; the except branch then writes status and error_message only.
CommitError == "commit failed"

start_crawl_task(t, db) ==
    /\ nreq < MaxRequests
    /\ IF ~ Exists(t)
       THEN /\ Respond("start", t, 404)
            /\ UNCHANGED <<crawl_tasks, collected_images, now>>
       ELSE IF crawl_tasks[t].status \notin {"pending", "paused"}
       THEN /\ Respond("start", t, 400)
            /\ UNCHANGED <<crawl_tasks, collected_images, now>>
       ELSE /\ CASE db = "ok" ->
                     /\ crawl_tasks' = [crawl_tasks EXCEPT
                                          ![t].status = "running",
                                          ![t].started_at = Some(now)]
                     /\ Respond("start", t, 200)
                 [] db = "fail_ok" ->
                     /\ crawl_tasks' = [crawl_tasks EXCEPT
                                          ![t].status = "failed",
                                          ![t].error_message = Some(CommitError)]
                     /\ Respond("start", t, 500)
                 [] OTHER ->
                     /\ crawl_tasks' = crawl_tasks
                     /\ Respond("start", t, 500)
            /\ UNCHANGED <<collected_images, now>>

\* pause_crawl_task without the check of the current status
pause_crawl_task_unchecked(t, commitOk) ==
    /\ nreq < MaxRequests
    /\ IF ~ Exists(t)
       THEN /\ Respond("pause", t, 404)
            /\ UNCHANGED <<crawl_tasks, collected_images, now>>
       ELSE IF commitOk
       THEN /\ crawl_tasks' = [crawl_tasks EXCEPT
                                 ![t].status = "paused",
                                 ![t].paused_at = Some(now)]
            /\ Respond("pause", t, 200)
            /\ UNCHANGED <<collected_images, now>>
       ELSE /\ Respond("pause", t, 500)
            /\ UNCHANGED <<crawl_tasks, collected_images, now>>

(* ------------------ POST /crawl-tasks/{id}/pause ----------------------- *)
pause_crawl_task(t, commitOk) ==
    /\ nreq < MaxRequests
    /\ IF ~ Exists(t)
       THEN /\ Respond("pause", t, 404)
            /\ UNCHANGED <<crawl_tasks, collected_images, now>>
       ELSE IF crawl_tasks[t].status # "running"
       THEN /\ Respond("pause", t, 400)
            /\ UNCHANGED <<crawl_tasks, collected_images, now>>
       ELSE IF commitOk
       THEN /\ crawl_tasks' = [crawl_tasks EXCEPT
                                 ![t].status = "paused",
                                 ![t].paused_at = Some(now)]
            /\ Respond("pause", t, 200)
            /\ UNCHANGED <<collected_images, now>>
       ELSE /\ Respond("pause", t, 500)
            /\ UNCHANGED <<crawl_tasks, collected_images, now>>

\* resume_crawl_task that does not clear paused_at
resume_crawl_task_keeps_paused_at(t, commitOk) ==
    /\ nreq < MaxRequests
    /\ IF ~ Exists(t)
       THEN /\ Respond("resume", t, 404)
            /\ UNCHANGED <<crawl_tasks, collected_images, now>>
       ELSE IF crawl_tasks[t].status # "paused"
       THEN /\ Respond("resume", t, 400)
            /\ UNCHANGED <<crawl_tasks, collected_images, now>>
       ELSE IF commitOk
       THEN /\ crawl_tasks' = [crawl_tasks EXCEPT ![t].status = "running"]
            /\ Respond("resume", t, 200)
            /\ UNCHANGED <<collected_images, now>>
       ELSE /\ Respond("resume", t, 500)
            /\ UNCHANGED <<crawl_tasks, collected_images, now>>

(* ------------------ POST /crawl-tasks/{id}/resume ---------------------- *)
resume_crawl_task(t, commitOk) ==
    /\ nreq < MaxRequests
    /\ IF ~ Exists(t)
       THEN /\ Respond("resume", t, 404)
            /\ UNCHANGED <<crawl_tasks, collected_images, now>>
       ELSE IF crawl_tasks[t].status # "paused"
       THEN /\ Respond("resume", t, 400)
            /\ UNCHANGED <<crawl_tasks, collected_images, now>>
       ELSE IF commitOk
       THEN /\ crawl_tasks' = [crawl_tasks EXCEPT
                                 ![t].status = "running",
                                 ![t].paused_at = None]
            /\ Respond("resume", t, 200)
            /\ UNCHANGED <<collected_images, now>>
       ELSE /\ Respond("resume", t, 500)
            /\ UNCHANGED <<crawl_tasks, collected_images, now>>

\* cancel_crawl_task that also deletes the images the task collected
cancel_crawl_task_purging_images(t, commitOk) ==
    /\ nreq < MaxRequests
    /\ IF ~ Exists(t)
       THEN /\ Respond("cancel", t, 404)
            /\ UNCHANGED <<crawl_tasks, collected_images, now>>
       ELSE IF crawl_tasks[t].status \notin {"running", "paused"}
       THEN /\ Respond("cancel", t, 400)
            /\ UNCHANGED <<crawl_tasks, collected_images, now>>
       ELSE IF commitOk
       THEN /\ crawl_tasks' = [crawl_tasks EXCEPT
                                 ![t].status = "failed",
                                 ![t].error_message = Some("Cancelled by user"),
                                 ![t].completed_at = Some(now)]
            /\ collected_images' = SelectSeq(collected_images,
                                             LAMBDA r : r.crawl_task_id # t)
            /\ Respond("cancel", t, 200)
            /\ UNCHANGED now
       ELSE /\ Respond("cancel", t, 500)
            /\ UNCHANGED <<crawl_tasks, collected_images, now>>


(* ------------------ POST /crawl-tasks/{id}/cancel ---------------------- *)
CancelMessage == "Cancelled by user"

cancel_crawl_task(t, commitOk) ==
    /\ nreq < MaxRequests
    /\ IF ~ Exists(t)
       THEN /\ Respond("cancel", t, 404)
            /\ UNCHANGED <<crawl_tasks, collected_images, now>>
       ELSE IF crawl_tasks[t].status \notin {"running", "paused"}
       THEN /\ Respond("cancel", t, 400)
            /\ UNCHANGED <<crawl_tasks, collected_images, now>>
       ELSE IF commitOk
       THEN /\ crawl_tasks' = [crawl_tasks EXCEPT
                                 ![t].status = "failed",
                                 ![t].error_message = Some(CancelMessage),
                                 ![t].completed_at = Some(now)]
            /\ Respond("cancel", t, 200)
            /\ UNCHANGED <<collected_images, now>>
       ELSE /\ Respond("cancel", t, 500)
            /\ UNCHANGED <<crawl_tasks, collected_images, now>>

(* ------------------ GET /crawl-tasks/{id}/images ----------------------- *)
RECURSIVE Drop(_, _)
Drop(s, n) == IF n <= 0 \/ s = <<>> THEN s ELSE Drop(Tail(s), n - 1)

Take(s, n) == SubSeq(s, 1, IF Len(s) < n THEN Len(s) ELSE n)

\* the rows the query returns; None when the task does not exist (404)
get_collected_images(t, skip, limit) ==
    IF ~ Exists(t) THEN None
    ELSE Some(Take(Drop(SelectSeq(collected_images,
                                  LAMBDA r : r.crawl_task_id = t), skip), limit))

(* -------------- a row written to collected_images ---------------------- *)
\* catcher.py has no writer of this table; rows arrive from outside the
\* handlers, constrained only by the table definition (foreign key to
\* crawl_tasks, no uniqueness constraint on source_url).
InsertCollectedImage(t, url) ==
    /\ Exists(t)
    /\ Len(collected_images) < MaxImages
    /\ collected_images' = Append(collected_images, CollectedImage(t, url))
    /\ UNCHANGED <<crawl_tasks, now, last, nreq>>
    /\ UNCHANGED <<filterVars, searchVars, fetchVars, extraVars>>

Next ==
    \/ Tick
    \/ \E s \in SourceInputs, q \in QueryInputs, l \in LimitInputs, ok \in BOOLEAN :
          create_crawl_task(s, q, l, ok)
    \/ \E t \in TaskIds, db \in {"ok", "fail_ok", "fail_fail"} : start_crawl_task(t, db)
    \/ \E t \in TaskIds, ok \in BOOLEAN : pause_crawl_task(t, ok)
    \/ \E t \in TaskIds, ok \in BOOLEAN : resume_crawl_task(t, ok)
    \/ \E t \in TaskIds, ok \in BOOLEAN : cancel_crawl_task(t, ok)
    \/ \E t \in TaskIds, u \in UrlInputs : InsertCollectedImage(t, u)

Spec == Init /\ [][Next]_vars

\* time passes whether or not a request arrives; nothing else is scheduled by
\* the code (start_crawl_task launches no background work)
LiveSpec == Init /\ [][Next]_vars /\ WF_vars(Tick)

(* ------ POST /crawl-tasks/{id}/images/{image_id}/save-as-template ------ *)
ImageIds == 1..MaxImages

\* the query finds the image: it exists and belongs to task t
Collected(t, image_id) ==
    /\ Exists(t)
    /\ image_id \in 1..Len(collected_images)
    /\ collected_images[image_id].crawl_task_id = t

\* save_collected_image_as_template without the test of saved_as_template
save_collected_image_as_template_unchecked(t, image_id, commitOk) ==
    /\ nreq < MaxRequests
    /\ IF ~ Collected(t, image_id)
       THEN /\ RespondTo("save", t, <<image_id>>, 404)
            /\ UNCHANGED <<crawl_tasks, collected_images, now>>
       ELSE IF commitOk
       THEN /\ collected_images' = [collected_images EXCEPT
                                      ![image_id].saved_as_template = TRUE]
            /\ RespondTo("save", t, <<image_id>>, 200)
            /\ UNCHANGED <<crawl_tasks, now>>
       ELSE /\ RespondTo("save", t, <<image_id>>, 500)
            /\ UNCHANGED <<crawl_tasks, collected_images, now>>

save_collected_image_as_template(t, image_id, commitOk) ==
    /\ nreq < MaxRequests
    /\ IF ~ Collected(t, image_id)
       THEN /\ RespondTo("save", t, <<image_id>>, 404)
            /\ UNCHANGED <<crawl_tasks, collected_images, now>>
       ELSE IF collected_images[image_id].saved_as_template
       THEN /\ RespondTo("save", t, <<image_id>>, 400)
            /\ UNCHANGED <<crawl_tasks, collected_images, now>>
       ELSE IF commitOk
       THEN /\ collected_images' = [collected_images EXCEPT
                                      ![image_id].saved_as_template = TRUE]
            /\ RespondTo("save", t, <<image_id>>, 200)
            /\ UNCHANGED <<crawl_tasks, now>>
       ELSE /\ RespondTo("save", t, <<image_id>>, 500)
            /\ UNCHANGED <<crawl_tasks, collected_images, now>>

\* the handlers of the router together
TemplateNext ==
    \/ Next
    \/ \E t \in TaskIds, i \in ImageIds, ok \in BOOLEAN :
          save_collected_image_as_template(t, i, ok)

TemplateSpec == Init /\ [][TemplateNext]_vars

(* ---------- lifecycle requests served side by side --------------------- *)
\* Server processes that share the database serve requests on task RaceTask.
\* Each handler reads the row (db.query(...).first()), tests the status it
\* read, assigns the columns and commits; the commit writes the assigned
\* columns of the row by its primary key. No handler locks the row or
\* compares a version, so another request's commit can fall between the read
\* and the commit.
Requests == {"r1", "r2"}
RaceOps == {"start", "pause", "resume", "cancel"}
RaceTask == 1

NotReceived == [op |-> "none", pc |-> "new", seen |-> "none", resp |-> 0]

\* the rows the handlers leave behind for a task that is pending, running or
\* paused
RaceRows ==
    LET row == [CrawlTask("danbooru", "q", 1) EXCEPT !.created_at = 0]
    IN { row,
         [row EXCEPT !.status = "running", !.started_at = Some(0)],
         [row EXCEPT !.status = "paused", !.started_at = Some(0),
                     !.paused_at = Some(0)] }

RaceInit ==
    /\ now = 0
    /\ crawl_tasks \in {<<row>> : row \in RaceRows}
    /\ collected_images = <<>>
    /\ last = [op |-> "none", task |-> 0, arg |-> <<>>, resp |-> 0]
    /\ nreq = 0
    /\ inflight = [r \in Requests |-> NotReceived]
    /\ co = <<>>
    /\ built = <<>>

RaceFrame ==
    UNCHANGED <<collected_images, now, last, nreq, co, built,
                filterVars, searchVars, fetchVars>>

\* the statuses each handler accepts
AcceptedStatuses(op) ==
    CASE op = "start"  -> {"pending", "paused"}
      [] op = "pause"  -> {"running"}
      [] op = "resume" -> {"paused"}
      [] op = "cancel" -> {"running", "paused"}

\* the columns each handler assigns before db.commit()
AssignedColumns(op, row) ==
    CASE op = "start"  -> [row EXCEPT !.status = "running", !.started_at = Some(now)]
      [] op = "pause"  -> [row EXCEPT !.status = "paused", !.paused_at = Some(now)]
      [] op = "resume" -> [row EXCEPT !.status = "running", !.paused_at = None]
      [] op = "cancel" -> [row EXCEPT !.status = "failed",
                                      !.error_message = Some(CancelMessage),
                                      !.completed_at = Some(now)]

\* task = db.query(CrawlTask).filter(CrawlTask.task_id == task_id).first() and
\* the test of task.status: 400 when the handler does not accept it
request_read(r, op) ==
    /\ inflight[r].pc = "new"
    /\ LET seen == crawl_tasks[RaceTask].status
       IN inflight' = [inflight EXCEPT ![r] =
             IF seen \in AcceptedStatuses(op)
             THEN [op |-> op, pc |-> "read", seen |-> seen, resp |-> 0]
             ELSE [op |-> op, pc |-> "done", seen |-> seen, resp |-> 400]]
    /\ UNCHANGED crawl_tasks
    /\ RaceFrame

\* the assignments and db.commit(); when the commit raises, start_crawl_task
\* writes status "failed" in its except branch (db: whether the first and the
\* second commit pass), the other handlers answer 500
request_commit(r, db) ==
    /\ inflight[r].pc = "read"
    /\ LET op == inflight[r].op
       IN CASE db = "ok" ->
                 /\ crawl_tasks' = [crawl_tasks EXCEPT
                                      ![RaceTask] = AssignedColumns(op, @)]
                 /\ inflight' = [inflight EXCEPT ![r].pc = "done", ![r].resp = 200]
            [] db = "fail_ok" /\ op = "start" ->
                 /\ crawl_tasks' = [crawl_tasks EXCEPT
                                      ![RaceTask].status = "failed",
                                      ![RaceTask].error_message = Some(CommitError)]
                 /\ inflight' = [inflight EXCEPT ![r].pc = "done", ![r].resp = 500]
            [] OTHER ->
                 /\ UNCHANGED crawl_tasks
                 /\ inflight' = [inflight EXCEPT ![r].pc = "done", ![r].resp = 500]
    /\ RaceFrame

RaceNext ==
    \/ \E r \in Requests, op \in RaceOps : request_read(r, op)
    \/ \E r \in Requests, db \in {"ok", "fail_ok", "fail"} : request_commit(r, db)

RaceSpecInit == FilterIdle /\ SearchIdle /\ FetchIdle /\ RaceInit

RaceSpec == RaceSpecInit /\ [][RaceNext]_vars

(* ===================== BaseCrawler filters ============================= *)
MaxLen == 3
MaxCalls == 2

\* ImageMetadata, the fields the filters read
FaceCounts == {None, Some(1), Some(2)}
Dimensions == { [width |-> None,       height |-> Some(1080)],
                [width |-> Some(1280), height |-> Some(720)],
                [width |-> Some(1920), height |-> Some(480)] }
ImageMetadata ==
    { [face_count |-> f, width |-> d.width, height |-> d.height] :
        f \in FaceCounts, d \in Dimensions }

ImageLists == UNION { [1..n -> ImageMetadata] : n \in 0..MaxLen }

BoundsInputs ==
    { [min_faces |-> f[1], max_faces |-> f[2], min_width |-> r[1], min_height |-> r[2]] :
        f \in { <<2, 2>>, <<1, 1>> }, r \in { <<800, 600>>, <<1920, 1080>> } }

\* filter_couples that drops the images whose face_count is unknown
RECURSIVE filter_couples_loop_drops_unknown(_, _, _, _, _)
filter_couples_loop_drops_unknown(images, i, filtered, min_faces, max_faces) ==
    IF i > Len(images) THEN filtered
    ELSE LET img == images[i] IN
         IF img.face_count # None
            /\ min_faces <= img.face_count[1] /\ img.face_count[1] <= max_faces
         THEN filter_couples_loop_drops_unknown(images, i + 1, Append(filtered, img),
                                                min_faces, max_faces)
         ELSE filter_couples_loop_drops_unknown(images, i + 1, filtered,
                                                min_faces, max_faces)

\* filter_couples that removes from the list it iterates over: after an image
\* is dropped the iteration steps over the image that follows it, which stays
RECURSIVE filter_couples_loop_remove_in_place(_, _, _, _, _)
filter_couples_loop_remove_in_place(images, i, filtered, min_faces, max_faces) ==
    IF i > Len(images) THEN filtered
    ELSE LET img == images[i] IN
         IF img.face_count = None
            \/ (min_faces <= img.face_count[1] /\ img.face_count[1] <= max_faces)
         THEN filter_couples_loop_remove_in_place(images, i + 1, Append(filtered, img),
                                                  min_faces, max_faces)
         ELSE IF i + 1 > Len(images) THEN filtered
         ELSE filter_couples_loop_remove_in_place(images, i + 2,
                                                  Append(filtered, images[i + 1]),
                                                  min_faces, max_faces)

\* filter_couples that leaves its loop at the first image out of bounds
RECURSIVE filter_couples_loop_break(_, _, _, _, _)
filter_couples_loop_break(images, i, filtered, min_faces, max_faces) ==
    IF i > Len(images) THEN filtered
    ELSE LET img == images[i] IN
         IF img.face_count = None
         THEN filter_couples_loop_break(images, i + 1, Append(filtered, img),
                                        min_faces, max_faces)
         ELSE IF min_faces <= img.face_count[1] /\ img.face_count[1] <= max_faces
         THEN filter_couples_loop_break(images, i + 1, Append(filtered, img),
                                        min_faces, max_faces)
         ELSE filtered


\* the loop of filter_couples from images[i] on, with filtered as built so far
RECURSIVE filter_couples_loop(_, _, _, _, _)
filter_couples_loop(images, i, filtered, min_faces, max_faces) ==
    IF i > Len(images) THEN filtered
    ELSE LET img == images[i] IN
         IF img.face_count = None
         THEN filter_couples_loop(images, i + 1, Append(filtered, img),
                                  min_faces, max_faces)
         ELSE IF min_faces <= img.face_count[1] /\ img.face_count[1] <= max_faces
         THEN filter_couples_loop(images, i + 1, Append(filtered, img),
                                  min_faces, max_faces)
         ELSE filter_couples_loop(images, i + 1, filtered, min_faces, max_faces)

filter_couples(images, min_faces, max_faces) ==
    filter_couples_loop(images, 1, <<>>, min_faces, max_faces)

\* the loop of filter_by_resolution from images[i] on
RECURSIVE filter_by_resolution_loop(_, _, _, _, _)
filter_by_resolution_loop(images, i, filtered, min_width, min_height) ==
    IF i > Len(images) THEN filtered
    ELSE LET img == images[i] IN
         IF img.width = None \/ img.height = None
         THEN filter_by_resolution_loop(images, i + 1, Append(filtered, img),
                                        min_width, min_height)
         ELSE IF img.width[1] >= min_width /\ img.height[1] >= min_height
         THEN filter_by_resolution_loop(images, i + 1, Append(filtered, img),
                                        min_width, min_height)
         ELSE filter_by_resolution_loop(images, i + 1, filtered, min_width, min_height)

filter_by_resolution(images, min_width, min_height) ==
    filter_by_resolution_loop(images, 1, <<>>, min_width, min_height)

\* the caller holds a list and bounds
FilterInit ==
    /\ fImages \in ImageLists
    /\ fBounds \in BoundsInputs
    /\ fTrace = <<>>
    /\ fArg = fImages
    /\ fList = fImages

\* fList = crawler.filter_couples(fList, min_faces, max_faces); the function
\* only reads its argument, which is therefore left as it was passed
CallFilterCouples ==
    /\ Len(fTrace) < MaxCalls
    /\ fList' = filter_couples(fList, fBounds.min_faces, fBounds.max_faces)
    /\ fArg' = fList
    /\ fTrace' = Append(fTrace, "couples")
    /\ UNCHANGED <<fImages, fBounds, taskVars, searchVars, fetchVars, extraVars>>

\* fList = crawler.filter_by_resolution(fList, min_width, min_height)
CallFilterByResolution ==
    /\ Len(fTrace) < MaxCalls
    /\ fList' = filter_by_resolution(fList, fBounds.min_width, fBounds.min_height)
    /\ fArg' = fList
    /\ fTrace' = Append(fTrace, "resolution")
    /\ UNCHANGED <<fImages, fBounds, taskVars, searchVars, fetchVars, extraVars>>

FilterNext == CallFilterCouples \/ CallFilterByResolution

FilterSpecInit == TaskInit /\ FilterInit /\ SearchIdle /\ FetchIdle /\ ExtraIdle

FilterSpec == FilterSpecInit /\ [][FilterNext]_vars

(* ============ DanbooruCrawler / GelbooruCrawler / PixivCrawler search == *)
MaxLimit == 2
MaxPosts == 2
MaxUpstream == 3
MaxPixivPages == 102

PageCeiling == 100
PixivPageSize == 30
TokenRefreshAge == 3000
min_bookmarks == 100
base_url == "https://danbooru.donmai.us"

Adapters == {"danbooru", "gelbooru", "pixiv"}

Min(a, b) == IF a < b THEN a ELSE b

\* a file URL: host "" is a URL that starts with "/"
FileUrls ==
    { [host |-> "",          path |-> "/a", ext |-> "jpg"],
      [host |-> base_url,    path |-> "/a", ext |-> "jpg"],
      [host |-> "https://cdn.donmai.us", path |-> "/b", ext |-> "png"] }

\* a post of the upstream: post.get("file_url") is None or a URL
Posts == { [file_url |-> None] } \cup { [file_url |-> Some(u)] : u \in FileUrls }

Pages == UNION { [1..n -> Posts] : n \in 0..MaxPosts }

\* an illust of Pixiv: total_bookmarks and image_urls
PixivUrl(name) == [host |-> "https://i.pximg.net", path |-> name, ext |-> "jpg"]
ImageUrls ==
    { [large |-> None, medium |-> None, square_medium |-> None],
      [large |-> Some(PixivUrl("/large")), medium |-> Some(PixivUrl("/medium")),
       square_medium |-> None],
      [large |-> None, medium |-> None, square_medium |-> Some(PixivUrl("/square"))] }
Illusts == { [total_bookmarks |-> b, image_urls |-> u] : b \in {50, 150}, u \in ImageUrls }

IllustPages == UNION { [1..n -> Illusts] : n \in 0..MaxPosts }

\* the lists an upstream may hold: no item twice
InjectiveSeqs(S) ==
    UNION { { f \in [1..n -> S] : \A i, j \in 1..n : i # j => f[i] # f[j] } :
              n \in 0..MaxUpstream }
UpstreamLists(adapter) ==
    IF adapter = "pixiv" THEN InjectiveSeqs(Illusts) ELSE InjectiveSeqs(Posts)

Slice(list, first, lastIndex) == SubSeq(list, first, Min(lastIndex, Len(list)))

\* file_url = f"{self.base_url}{file_url}" when it starts with "/"
MakeAbsolute(u) == IF u.host = "" THEN [u EXCEPT !.host = base_url] ELSE u

\* the loop "for post in posts" without the test of len(results) against limit
RECURSIVE process_posts_no_limit_check(_, _, _, _, _)
process_posts_no_limit_check(results, posts, i, limit, file_ext) ==
    IF i > Len(posts) THEN results
    ELSE IF posts[i].file_url = None
    THEN process_posts_no_limit_check(results, posts, i + 1, limit, file_ext)
    ELSE LET file_url == MakeAbsolute(posts[i].file_url[1]) IN
         IF file_ext # None /\ file_url.ext # file_ext[1]
         THEN process_posts_no_limit_check(results, posts, i + 1, limit, file_ext)
         ELSE process_posts_no_limit_check(Append(results, [url |-> file_url]), posts,
                                           i + 1, limit, file_ext)

\* DanbooruCrawler.search: the loop "for post in posts" from posts[i] on
RECURSIVE process_posts(_, _, _, _, _)
process_posts(results, posts, i, limit, file_ext) ==
    IF i > Len(posts) THEN results
    ELSE IF Len(results) >= limit THEN results
    ELSE IF posts[i].file_url = None
    THEN process_posts(results, posts, i + 1, limit, file_ext)
    ELSE LET file_url == MakeAbsolute(posts[i].file_url[1]) IN
         IF file_ext # None /\ file_url.ext # file_ext[1]
         THEN process_posts(results, posts, i + 1, limit, file_ext)
         ELSE process_posts(Append(results, [url |-> file_url]), posts, i + 1,
                            limit, file_ext)

\* GelbooruCrawler.search: the loop "for post in posts" from posts[i] on
RECURSIVE gelbooru_process_posts(_, _, _, _)
gelbooru_process_posts(results, posts, i, limit) ==
    IF i > Len(posts) THEN results
    ELSE IF Len(results) >= limit THEN results
    ELSE IF posts[i].file_url = None
    THEN gelbooru_process_posts(results, posts, i + 1, limit)
    ELSE gelbooru_process_posts(Append(results, [url |-> posts[i].file_url[1]]),
                                posts, i + 1, limit)

\* image_urls.get("large") or image_urls.get("medium") or image_urls.get("square_medium")
LargestUrl(image_urls) ==
    IF image_urls.large # None THEN image_urls.large
    ELSE IF image_urls.medium # None THEN image_urls.medium
    ELSE image_urls.square_medium

\* PixivCrawler.search: the loop "for illust in illusts" from illusts[i] on
RECURSIVE process_illusts(_, _, _, _)
process_illusts(results, illusts, i, limit) ==
    IF i > Len(illusts) THEN results
    ELSE IF Len(results) >= limit THEN results
    ELSE IF illusts[i].total_bookmarks < min_bookmarks
    THEN process_illusts(results, illusts, i + 1, limit)
    ELSE LET url == LargestUrl(illusts[i].image_urls) IN
         IF url = None
         THEN process_illusts(results, illusts, i + 1, limit)
         ELSE process_illusts(Append(results, [url |-> url[1]]), illusts, i + 1, limit)

\* search(query, limit, filters) is called on a crawler of class sAdapter; the
\* upstream holds the fixed list sUpstream, or answers anything when it is None
SearchInit ==
    /\ sAdapter \in Adapters
    /\ sLimit \in 1..MaxLimit
    /\ sFileExt \in (IF sAdapter = "danbooru" THEN {None, Some("jpg")} ELSE {None})
    /\ sUpstream \in {None} \cup { Some(l) : l \in UpstreamLists(sAdapter) }
    /\ sResults = <<>>
    /\ sPage = (IF sAdapter = "danbooru" THEN 1 ELSE 0)
    /\ sOutcome = (IF sAdapter = "pixiv" THEN "auth" ELSE "running")
    /\ sFetchFailed = FALSE
    /\ sRequests = 0
    /\ sEmptySeen = FALSE
    /\ refresh_token \in (IF sAdapter = "pixiv" THEN BOOLEAN ELSE {FALSE})
    /\ access_token \in (IF sAdapter = "pixiv" THEN BOOLEAN ELSE {FALSE})
    /\ token_age \in (IF access_token
                      THEN {None, Some(TokenRefreshAge), Some(TokenRefreshAge + 1)}
                      ELSE {None})
    /\ sAuthRequests = 0
    /\ sAuthFailed = FALSE

SearchFrame ==
    UNCHANGED <<sAdapter, sLimit, sFileExt, sUpstream, taskVars, filterVars, fetchVars,
                extraVars>>

AuthFrame == UNCHANGED <<refresh_token, access_token, token_age, sAuthRequests, sAuthFailed>>

\* what the token endpoint answers: 200 with both tokens, 200 with a body that
\* lacks "refresh_token", another status, or no answer at all
AuthResponses == {"200", "200_no_refresh_token", "403", "error"}

\* _ensure_authenticated renewing the token at the age of 3000 s already
NeedsAuthentication_at_threshold ==
    \/ ~ access_token
    \/ (token_age # None /\ token_age[1] >= TokenRefreshAge)

\* _ensure_authenticated has to call _authenticate
NeedsAuthentication ==
    \/ ~ access_token
    \/ (token_age # None /\ token_age[1] > TokenRefreshAge)

\* PixivCrawler.search up to "results = []": _ensure_authenticated, with
\* _authenticate when it is called, and "return []" when it fails
pixiv_ensure_authenticated(resp) ==
    /\ sOutcome = "auth"
    /\ IF ~ NeedsAuthentication
       THEN /\ sOutcome' = "running"
            /\ AuthFrame
       ELSE IF ~ refresh_token
       THEN /\ sOutcome' = "list"
            /\ sAuthFailed' = TRUE
            /\ UNCHANGED <<refresh_token, access_token, token_age, sAuthRequests>>
       ELSE /\ sAuthRequests' = sAuthRequests + 1
            /\ CASE resp = "200" ->
                      /\ access_token' = TRUE
                      /\ token_age' = Some(0)
                      /\ sOutcome' = "running"
                      /\ UNCHANGED <<refresh_token, sAuthFailed>>
                 [] resp = "200_no_refresh_token" ->
                      /\ access_token' = TRUE
                      /\ sOutcome' = "list"
                      /\ sAuthFailed' = TRUE
                      /\ UNCHANGED <<refresh_token, token_age>>
                 [] OTHER ->
                      /\ sOutcome' = "list"
                      /\ sAuthFailed' = TRUE
                      /\ UNCHANGED <<refresh_token, access_token, token_age>>
    /\ UNCHANGED <<sResults, sPage, sFetchFailed, sRequests, sEmptySeen>>
    /\ SearchFrame

InLoop == sOutcome = "running" /\ Len(sResults) < sLimit

\* Pixiv pages without end; the model stops asking at MaxPixivPages
MayRequest == sAdapter = "pixiv" => sRequests < MaxPixivPages

\* _fetch_with_retry returned None: "if not response: break", then return results
SearchFetchFailed ==
    /\ InLoop
    /\ MayRequest
    /\ sRequests' = sRequests + 1
    /\ sFetchFailed' = TRUE
    /\ sOutcome' = "list"
    /\ UNCHANGED <<sResults, sPage, sEmptySeen>>
    /\ AuthFrame
    /\ SearchFrame

\* response.json() raised: caught by "except Exception", then return results
SearchJsonRaised ==
    /\ InLoop
    /\ MayRequest
    /\ sRequests' = sRequests + 1
    /\ sOutcome' = "list"
    /\ UNCHANGED <<sResults, sPage, sFetchFailed, sEmptySeen>>
    /\ AuthFrame
    /\ SearchFrame

\* params["limit"] of the Danbooru request: min(page_size, limit - len(results))
\* with page_size = min(200, limit)
DanbooruRequestLimit == Min(Min(200, sLimit), sLimit - Len(sResults))

\* params["limit"] of the Gelbooru request
GelbooruRequestLimit == Min(100, sLimit - Len(sResults))

\* the page a list-holding upstream serves for the request the adapter sends:
\* page "page" of "limit" posts (Danbooru, pages from 1; Gelbooru, pid from 0),
\* or the posts from "offset" on, PixivPageSize at most (Pixiv)
ServedPage ==
    LET list == sUpstream[1] IN
    CASE sAdapter = "danbooru" ->
           Slice(list, (sPage - 1) * DanbooruRequestLimit + 1, sPage * DanbooruRequestLimit)
      [] sAdapter = "gelbooru" ->
           Slice(list, sPage * GelbooruRequestLimit + 1, (sPage + 1) * GelbooruRequestLimit)
      [] sAdapter = "pixiv" ->
           Slice(list, sPage + 1, sPage + PixivPageSize)

Serves(posts) == IF sUpstream = None THEN TRUE ELSE posts = ServedPage

\* DanbooruCrawler.search: the upstream answered with the list posts
SearchPage(posts) ==
    /\ InLoop
    /\ sAdapter = "danbooru"
    /\ Serves(posts)
    /\ sRequests' = sRequests + 1
    /\ IF posts = <<>>
       THEN /\ sOutcome' = "list"
            /\ sEmptySeen' = TRUE
            /\ UNCHANGED <<sResults, sPage>>
       ELSE /\ sResults' = process_posts(sResults, posts, 1, sLimit, sFileExt)
            /\ sPage' = sPage + 1
            /\ sOutcome' = IF sPage' > PageCeiling \/ Len(sResults') >= sLimit
                           THEN "list" ELSE "running"
            /\ UNCHANGED sEmptySeen
    /\ UNCHANGED sFetchFailed
    /\ AuthFrame
    /\ SearchFrame

\* GelbooruCrawler.search: the upstream answered with the list posts
GelbooruSearchPage(posts) ==
    /\ InLoop
    /\ sAdapter = "gelbooru"
    /\ Serves(posts)
    /\ sRequests' = sRequests + 1
    /\ IF posts = <<>>
       THEN /\ sOutcome' = "list"
            /\ sEmptySeen' = TRUE
            /\ UNCHANGED <<sResults, sPage>>
       ELSE /\ sResults' = gelbooru_process_posts(sResults, posts, 1, sLimit)
            /\ sPage' = sPage + 1
            /\ sOutcome' = IF sPage' > PageCeiling \/ Len(sResults') >= sLimit
                           THEN "list" ELSE "running"
            /\ UNCHANGED sEmptySeen
    /\ UNCHANGED sFetchFailed
    /\ AuthFrame
    /\ SearchFrame

\* PixivCrawler.search: the upstream answered with illusts, and with a next_url
\* or none; sPage is offset, which grows by page_size = min(30, limit)
PixivSearchPage(illusts, next_url) ==
    /\ InLoop
    /\ sAdapter = "pixiv"
    /\ MayRequest
    /\ Serves(illusts)
    /\ IF sUpstream = None THEN TRUE
       ELSE next_url <=> (sPage + PixivPageSize < Len(sUpstream[1]))
    /\ sRequests' = sRequests + 1
    /\ IF illusts = <<>>
       THEN /\ sOutcome' = "list"
            /\ sEmptySeen' = TRUE
            /\ UNCHANGED <<sResults, sPage>>
       ELSE /\ sResults' = process_illusts(sResults, illusts, 1, sLimit)
            /\ sPage' = sPage + Min(PixivPageSize, sLimit)
            /\ sOutcome' = IF ~ next_url \/ Len(sResults') >= sLimit
                           THEN "list" ELSE "running"
            /\ UNCHANGED sEmptySeen
    /\ UNCHANGED sFetchFailed
    /\ AuthFrame
    /\ SearchFrame

SearchNext ==
    \/ \E resp \in AuthResponses : pixiv_ensure_authenticated(resp)
    \/ SearchFetchFailed
    \/ SearchJsonRaised
    \/ \E posts \in Pages : SearchPage(posts)
    \/ \E posts \in Pages : GelbooruSearchPage(posts)
    \/ \E illusts \in IllustPages, next_url \in BOOLEAN : PixivSearchPage(illusts, next_url)

SearchSpecInit == TaskInit /\ FilterIdle /\ SearchInit /\ FetchIdle /\ ExtraIdle

SearchSpec == SearchSpecInit /\ [][SearchNext]_vars

\* a search that is called keeps running: the caller awaits it
SearchLiveSpec == SearchSpecInit /\ [][SearchNext]_vars /\ WF_vars(SearchNext)

(* ================== BaseCrawler._fetch_with_retry ====================== *)
\* One caller calls _fetch_with_retry on one crawler instance, one call after
\* the other. Time is counted in tenths of a second.
MaxFetches == 2

Seconds(n) == 10 * n

Crawlers == {"DanbooruCrawler", "DanbooruCrawler_api_key", "PixivCrawler"}

\* the CrawlerConfig the constructor of each class builds when it is given none
CrawlerConfig(c) ==
    CASE c = "DanbooruCrawler" ->
           [rate_limit_delay |-> 6, max_concurrent_requests |-> 3, timeout |-> Seconds(30)]
      [] c = "DanbooruCrawler_api_key" ->
           [rate_limit_delay |-> 5, max_concurrent_requests |-> 3, timeout |-> Seconds(30)]
      [] c = "PixivCrawler" ->
           [rate_limit_delay |-> Seconds(2), max_concurrent_requests |-> 2,
            timeout |-> Seconds(30)]

\* the request rate each source documents, as the constructors cite it:
\* "Danbooru rate limit: 2 req/sec anonymous" and "Pixiv allows ~100
\* requests/hour for free tier"
DocumentedRequestsPerHour(c) ==
    CASE c = "DanbooruCrawler" -> 2 * 3600
      [] c = "DanbooruCrawler_api_key" -> 2 * 3600
      [] c = "PixivCrawler" -> 100

\* what an attempt can end with: a status of the response, asyncio.TimeoutError
\* or another exception of session.get
Statuses == {"200", "429", "500", "timeout", "error"}
RetryInputs == {1, 2, 3}

\* time that passes between two calls, time a request takes, and time a sleep
\* takes beyond its minimum
IdleGaps == {0, Seconds(3)}
RequestTimes == {1}
Jitter == {0, 1}

\* self._last_request_time = datetime.now() - timedelta(seconds=rate_limit_delay)
InitialLastRequestTime(t, rate_limit_delay) == t - rate_limit_delay

\* _rate_limit with the wait cut to whole seconds
rate_limit_wait_time_whole_seconds(rate_limit_delay, time_since_last) ==
    IF time_since_last < rate_limit_delay
    THEN Seconds((rate_limit_delay - time_since_last) \div Seconds(1))
    ELSE 0

\* _rate_limit: the time to wait, 0 when it does not sleep
rate_limit_wait_time(rate_limit_delay, time_since_last) ==
    IF time_since_last < rate_limit_delay
    THEN rate_limit_delay - time_since_last
    ELSE 0

\* the backoff growing by 2 * attempt instead of 2 ** attempt
backoff_wait_time_linear(a) == Seconds(2 * a)

\* wait_time = 2 ** attempt
backoff_wait_time(a) == Seconds(2 ^ a)

\* one attempt more than max_retries
HasNextAttempt_inclusive(a, retries) == a < retries

\* "for attempt in range(max_retries)" has another round after round a, which
\* is also the test "if attempt < max_retries - 1" before the pause
HasNextAttempt(a, retries) == a < retries - 1

\* asyncio.sleep(1 * (attempt + 1))
retry_pause(a) == Seconds(1 * (a + 1))

\* the instance right after __init__
FetchInit ==
    /\ crawler \in Crawlers
    /\ config = CrawlerConfig(crawler)
    /\ clock = 0
    /\ last_request_time = InitialLastRequestTime(0, config.rate_limit_delay)
    /\ semaphore = config.max_concurrent_requests
    /\ pc = "idle"
    /\ max_retries = 3
    /\ attempt = 0
    /\ sleep_until = 0
    /\ statuses = <<>>
    /\ backoff_slept = 0
    /\ result = "pending"
    /\ ncalls = 0
    /\ slept = 0

FetchFrame == UNCHANGED <<crawler, config, taskVars, filterVars, searchVars, extraVars>>

\* _fetch_with_retry(url, max_retries=retries) is called, gap after the
\* previous call returned (or after the instance was built)
fetch_with_retry(retries, gap) ==
    /\ pc \in {"idle", "returned"}
    /\ ncalls < MaxFetches
    /\ ncalls' = ncalls + 1
    /\ clock' = clock + gap
    /\ max_retries' = retries
    /\ attempt' = 0
    /\ statuses' = <<>>
    /\ backoff_slept' = 0
    /\ slept' = 0
    /\ result' = "pending"
    /\ pc' = "acquire"
    /\ UNCHANGED <<last_request_time, semaphore, sleep_until>>
    /\ FetchFrame

\* async with self._semaphore
semaphore_acquire ==
    /\ pc = "acquire"
    /\ semaphore > 0
    /\ semaphore' = semaphore - 1
    /\ pc' = "rate_limit"
    /\ UNCHANGED <<clock, last_request_time, max_retries, attempt, sleep_until,
                   statuses, backoff_slept, result, ncalls, slept>>
    /\ FetchFrame

\* _rate_limit up to its await, or to its end when it does not sleep
rate_limit ==
    /\ pc = "rate_limit"
    /\ LET wait_time == rate_limit_wait_time(config.rate_limit_delay,
                                             clock - last_request_time)
       IN IF wait_time > 0
          THEN /\ sleep_until' = clock + wait_time
               /\ pc' = "rate_limit_sleep"
               /\ UNCHANGED last_request_time
          ELSE /\ last_request_time' = clock
               /\ pc' = "get"
               /\ UNCHANGED sleep_until
    /\ UNCHANGED <<clock, semaphore, max_retries, attempt, statuses, backoff_slept,
                   result, ncalls, slept>>
    /\ FetchFrame

\* asyncio.sleep(wait_time) is over: self._last_request_time = datetime.now()
rate_limit_wake(late) ==
    /\ pc = "rate_limit_sleep"
    /\ clock' = sleep_until + late
    /\ last_request_time' = clock'
    /\ pc' = "get"
    /\ UNCHANGED <<semaphore, max_retries, attempt, sleep_until, statuses,
                   backoff_slept, result, ncalls, slept>>
    /\ FetchFrame

\* session.get(url) ends with status; leaving "async with self._semaphore"
\* releases the slot, which a 429 does only after its sleep
session_get(status, took) ==
    /\ pc = "get"
    /\ clock' = clock + (IF status = "timeout" THEN config.timeout ELSE took)
    /\ statuses' = Append(statuses, status)
    /\ CASE status = "200" ->
              /\ result' = "response"
              /\ semaphore' = semaphore + 1
              /\ pc' = "returned"
              /\ UNCHANGED sleep_until
         [] status = "429" ->
              /\ sleep_until' = clock' + backoff_wait_time(attempt)
              /\ pc' = "backoff"
              /\ UNCHANGED <<result, semaphore>>
         [] OTHER ->
              /\ semaphore' = semaphore + 1
              /\ pc' = "attempt_end"
              /\ UNCHANGED <<result, sleep_until>>
    /\ slept' = (IF status = "429" THEN backoff_wait_time(attempt) ELSE 0)
    /\ UNCHANGED <<last_request_time, max_retries, attempt, backoff_slept, ncalls>>
    /\ FetchFrame

\* the sleep after a 429 is over
backoff_wake(late) ==
    /\ pc = "backoff"
    /\ clock' = sleep_until + late
    /\ backoff_slept' = backoff_slept + (clock' - clock)
    /\ semaphore' = semaphore + 1
    /\ pc' = "attempt_end"
    /\ UNCHANGED <<last_request_time, max_retries, attempt, sleep_until, statuses,
                   result, ncalls, slept>>
    /\ FetchFrame

\* "if attempt < max_retries - 1: await asyncio.sleep(...)", or the end of the
\* loop and "return None"
attempt_end ==
    /\ pc = "attempt_end"
    /\ IF HasNextAttempt(attempt, max_retries)
       THEN /\ sleep_until' = clock + retry_pause(attempt)
            /\ slept' = slept + retry_pause(attempt)
            /\ pc' = "retry_pause"
            /\ UNCHANGED result
       ELSE /\ result' = "None"
            /\ pc' = "returned"
            /\ UNCHANGED <<sleep_until, slept>>
    /\ UNCHANGED <<clock, last_request_time, semaphore, max_retries, attempt,
                   statuses, backoff_slept, ncalls>>
    /\ FetchFrame

\* the pause between two attempts is over: the next round of the loop
retry_wake(late) ==
    /\ pc = "retry_pause"
    /\ clock' = sleep_until + late
    /\ attempt' = attempt + 1
    /\ pc' = "acquire"
    /\ UNCHANGED <<last_request_time, semaphore, max_retries, sleep_until, statuses,
                   backoff_slept, result, ncalls, slept>>
    /\ FetchFrame

FetchNext ==
    \/ \E retries \in RetryInputs, gap \in IdleGaps : fetch_with_retry(retries, gap)
    \/ semaphore_acquire
    \/ rate_limit
    \/ \E late \in Jitter : rate_limit_wake(late)
    \/ \E status \in Statuses, took \in RequestTimes : session_get(status, took)
    \/ \E late \in Jitter : backoff_wake(late)
    \/ attempt_end
    \/ \E late \in Jitter : retry_wake(late)

FetchSpecInit == TaskInit /\ FilterIdle /\ SearchIdle /\ FetchInit /\ ExtraIdle

FetchSpec == FetchSpecInit /\ [][FetchNext]_vars

(* ============ concurrent calls of _fetch_with_retry ===================== *)
\* Several coroutines call _fetch_with_retry on one crawler instance. They
\* share the clock, self._last_request_time and self._semaphore; co holds the
\* position, the round and the pending wake-up of each. A coroutine gives up
\* control only at an await; a step here runs from one await to the next or
\* to a point in between, where no time passes.
Coroutines == {"c1", "c2"}
ConcRetryInputs == {1, 2}

\* the default configuration of PixivCrawler, and one a caller passes to the
\* constructor with a single concurrency slot
ConcConfigs ==
    {CrawlerConfig("PixivCrawler"),
     [rate_limit_delay |-> Seconds(2), max_concurrent_requests |-> 1,
      timeout |-> Seconds(30)]}

\* how a coroutine leaves "async with self._semaphore"
Exits == Statuses \cup {"cancelled"}

\* positions inside "async with self._semaphore"
InsideSemaphore == {"rate_limit", "rate_limit_sleep", "get", "backoff"}
\* positions at an asyncio.sleep, or at a request with its timeout running
Sleeping == {"rate_limit_sleep", "backoff", "retry_pause", "get"}
\* positions between two awaits, which a coroutine passes without a pause
Running == {"rate_limit", "attempt_end"}
\* positions at an await, where asyncio delivers a cancellation
AtAwait == {"acquire", "rate_limit_sleep", "get", "backoff", "retry_pause"}

NotCalled == [pc |-> "idle", attempt |-> 0, max_retries |-> 3, sleep_until |-> 0,
              exit |-> "none"]

\* Semaphore.release of __aexit__ skipped when the body was cancelled
async_with_exit_leaks_on_cancel(sem, how) ==
    IF how = "cancelled" THEN sem ELSE sem + 1

\* __aexit__ of "async with self._semaphore": Semaphore.release, however the
\* body was left
async_with_exit(sem, how) == sem + 1

ConcInit ==
    /\ crawler = "PixivCrawler"
    /\ config \in ConcConfigs
    /\ clock = 0
    /\ last_request_time = InitialLastRequestTime(0, config.rate_limit_delay)
    /\ semaphore = config.max_concurrent_requests
    /\ pc = "idle"
    /\ max_retries = 3
    /\ attempt = 0
    /\ sleep_until = 0
    /\ statuses = <<>>
    /\ backoff_slept = 0
    /\ result = "pending"
    /\ ncalls = 0
    /\ slept = 0
    /\ co = [c \in Coroutines |-> NotCalled]
    /\ inflight = <<>>
    /\ built = <<>>

ConcFrame ==
    UNCHANGED <<crawler, config, pc, max_retries, attempt, sleep_until, statuses,
                backoff_slept, result, ncalls, slept, inflight, built,
                taskVars, filterVars, searchVars>>

\* a coroutine calls _fetch_with_retry(url, max_retries=retries)
co_fetch_with_retry(c, retries) ==
    /\ co[c].pc = "idle"
    /\ co' = [co EXCEPT ![c].pc = "acquire", ![c].max_retries = retries]
    /\ UNCHANGED <<clock, last_request_time, semaphore>>
    /\ ConcFrame

\* async with self._semaphore: waits while no slot is free
co_semaphore_acquire(c) ==
    /\ co[c].pc = "acquire"
    /\ semaphore > 0
    /\ semaphore' = semaphore - 1
    /\ co' = [co EXCEPT ![c].pc = "rate_limit"]
    /\ UNCHANGED <<clock, last_request_time>>
    /\ ConcFrame

\* _rate_limit up to its await, or to its end when it does not sleep
co_rate_limit(c) ==
    /\ co[c].pc = "rate_limit"
    /\ LET wait_time == rate_limit_wait_time(config.rate_limit_delay,
                                             clock - last_request_time)
       IN IF wait_time > 0
          THEN /\ co' = [co EXCEPT ![c].pc = "rate_limit_sleep",
                                   ![c].sleep_until = clock + wait_time]
               /\ UNCHANGED last_request_time
          ELSE /\ last_request_time' = clock
               /\ co' = [co EXCEPT ![c].pc = "get",
                                   ![c].sleep_until = clock + config.timeout]
    /\ UNCHANGED <<clock, semaphore>>
    /\ ConcFrame

\* asyncio.sleep(wait_time) is over: self._last_request_time = datetime.now()
\* and session.get is called
co_rate_limit_wake(c) ==
    /\ co[c].pc = "rate_limit_sleep"
    /\ clock >= co[c].sleep_until
    /\ last_request_time' = clock
    /\ co' = [co EXCEPT ![c].pc = "get", ![c].sleep_until = clock + config.timeout]
    /\ UNCHANGED <<clock, semaphore>>
    /\ ConcFrame

\* session.get(url) ends with status; asyncio.TimeoutError is raised when
\* ClientTimeout(total=config.timeout) has run out
co_session_get(c, status) ==
    /\ co[c].pc = "get"
    /\ IF status = "timeout" THEN clock >= co[c].sleep_until
                             ELSE clock < co[c].sleep_until
    /\ CASE status = "200" ->
              /\ semaphore' = async_with_exit(semaphore, status)
              /\ co' = [co EXCEPT ![c].pc = "returned", ![c].exit = status]
         [] status = "429" ->
              /\ co' = [co EXCEPT ![c].pc = "backoff",
                                  ![c].sleep_until = clock + backoff_wait_time(co[c].attempt)]
              /\ UNCHANGED semaphore
         [] OTHER ->
              /\ semaphore' = async_with_exit(semaphore, status)
              /\ co' = [co EXCEPT ![c].pc = "attempt_end", ![c].exit = status]
    /\ UNCHANGED <<clock, last_request_time>>
    /\ ConcFrame

\* the sleep after a 429 is over: the end of "async with self._semaphore"
co_backoff_wake(c) ==
    /\ co[c].pc = "backoff"
    /\ clock >= co[c].sleep_until
    /\ semaphore' = async_with_exit(semaphore, "429")
    /\ co' = [co EXCEPT ![c].pc = "attempt_end", ![c].exit = "429"]
    /\ UNCHANGED <<clock, last_request_time>>
    /\ ConcFrame

\* "if attempt < max_retries - 1: await asyncio.sleep(...)", or "return None"
co_attempt_end(c) ==
    /\ co[c].pc = "attempt_end"
    /\ IF HasNextAttempt(co[c].attempt, co[c].max_retries)
       THEN co' = [co EXCEPT ![c].pc = "retry_pause",
                             ![c].sleep_until = clock + retry_pause(co[c].attempt)]
       ELSE co' = [co EXCEPT ![c].pc = "returned"]
    /\ UNCHANGED <<clock, last_request_time, semaphore>>
    /\ ConcFrame

\* the pause between two attempts is over: the next round of the loop
co_retry_wake(c) ==
    /\ co[c].pc = "retry_pause"
    /\ clock >= co[c].sleep_until
    /\ co' = [co EXCEPT ![c].pc = "acquire", ![c].attempt = co[c].attempt + 1]
    /\ UNCHANGED <<clock, last_request_time, semaphore>>
    /\ ConcFrame

\* the task of the coroutine is cancelled: CancelledError is raised at its
\* await, passes "except Exception" and leaves "async with" when inside it
co_cancel(c) ==
    /\ co[c].pc \in AtAwait
    /\ IF co[c].pc \in InsideSemaphore
       THEN /\ semaphore' = async_with_exit(semaphore, "cancelled")
            /\ co' = [co EXCEPT ![c].pc = "cancelled", ![c].exit = "cancelled"]
       ELSE /\ co' = [co EXCEPT ![c].pc = "cancelled"]
            /\ UNCHANGED semaphore
    /\ UNCHANGED <<clock, last_request_time>>
    /\ ConcFrame

\* time passes until the next wake-up that is due
PendingWakes == {co[c].sleep_until : c \in {d \in Coroutines : co[d].pc \in Sleeping}}

co_time_passes ==
    /\ \A c \in Coroutines :
          /\ co[c].pc \notin Running
          /\ co[c].pc = "acquire" => semaphore = 0
    /\ \E t \in PendingWakes :
          /\ t > clock
          /\ \A u \in PendingWakes : u > clock => t <= u
          /\ clock' = t
    /\ UNCHANGED <<co, last_request_time, semaphore>>
    /\ ConcFrame

ConcNext ==
    \/ \E c \in Coroutines, retries \in ConcRetryInputs : co_fetch_with_retry(c, retries)
    \/ \E c \in Coroutines : co_semaphore_acquire(c)
    \/ \E c \in Coroutines : co_rate_limit(c)
    \/ \E c \in Coroutines : co_rate_limit_wake(c)
    \/ \E c \in Coroutines, status \in Statuses : co_session_get(c, status)
    \/ \E c \in Coroutines : co_backoff_wake(c)
    \/ \E c \in Coroutines : co_attempt_end(c)
    \/ \E c \in Coroutines : co_retry_wake(c)
    \/ \E c \in Coroutines : co_cancel(c)
    \/ co_time_passes

ConcSpecInit == TaskInit /\ FilterIdle /\ SearchIdle /\ ConcInit

ConcSpec == ConcSpecInit /\ [][ConcNext]_vars

(* ========================== ImageMetadata ============================== *)
MaxBuilt == 2

MetadataUrls == {"https://cdn.donmai.us/a.jpg", "https://cdn.donmai.us/b.png"}
MetadataSources == {"danbooru", "gelbooru"}

\* hashlib.md5(text.encode()).hexdigest() of the texts the model hashes
md5_hexdigest(text) ==
    CASE text = "https://cdn.donmai.us/a.jpg" -> "6612108fdc46b63ac61a6f3604a60b1d"
      [] text = "https://cdn.donmai.us/b.png" -> "e9f07a17cef58efe218421e13116714f"
      [] text = "https://cdn.donmai.us/a.jpgdanbooru" -> "86dd6bcf05fa3dfe3853febabbfcb218"
      [] text = "https://cdn.donmai.us/a.jpggelbooru" -> "7153105fc3cf4e131481d9f30d5945e3"
      [] text = "https://cdn.donmai.us/b.pngdanbooru" -> "5cbb41510d85d679479b64179496d007"
      [] text = "https://cdn.donmai.us/b.pnggelbooru" -> "e3c59e17df70d1b56c041f03286f6486"

\* the id taken from the url and the source together
image_id_of_url_and_source(url, source) == md5_hexdigest(url \o source)

\* self.id = hashlib.md5(url.encode()).hexdigest()
image_id(url, source) == md5_hexdigest(url)

\* ImageMetadata(url, source, face_count=face_count) built at time t
NewImageMetadata(url, source, face_count, t) ==
    [ url        |-> url,
      source     |-> source,
      face_count |-> face_count,
      timestamp  |-> t,
      id         |-> image_id(url, source) ]

\* a record is built
BuildImageMetadata(url, source, face_count, t) ==
    /\ Len(built) < MaxBuilt
    /\ built' = Append(built, NewImageMetadata(url, source, face_count, t))
    /\ UNCHANGED <<co, inflight, taskVars, filterVars, searchVars, fetchVars>>

MetadataNext ==
    \E url \in MetadataUrls, source \in MetadataSources,
       face_count \in {None, Some(2)}, t \in {0, 1} :
        BuildImageMetadata(url, source, face_count, t)

MetadataSpecInit == TaskInit /\ FilterIdle /\ SearchIdle /\ FetchIdle /\ ExtraIdle

MetadataSpec == MetadataSpecInit /\ [][MetadataNext]_vars

(* ======================= crawl-task lifecycle claims =================== *)
LifecycleOps == {"start", "pause", "resume", "cancel"}

\* <<operation, status before, status after>>
TableEdges ==
    { <<"start", "pending", "running">>, <<"start", "paused", "running">>,
      <<"pause", "running", "paused">>,  <<"resume", "paused", "running">>,
      <<"cancel", "running", "failed">>, <<"cancel", "paused", "failed">> }

StartFailureEdges ==
    { <<"start", "pending", "failed">>, <<"start", "paused", "failed">> }

Legal(op, status) == \E e \in TableEdges : e[1] = op /\ e[2] = status

Served == nreq' # nreq

LifecycleStep(edges) ==
    /\ Len(crawl_tasks') >= Len(crawl_tasks)
    /\ \A t \in 1..Len(crawl_tasks) :
          /\ crawl_tasks'[t].status # crawl_tasks[t].status =>
                /\ Served
                /\ last'.task = t
                /\ <<last'.op, crawl_tasks[t].status, crawl_tasks'[t].status>> \in edges
          /\ ( /\ Served
               /\ last'.task = t
               /\ last'.op \in LifecycleOps
               /\ ~ Legal(last'.op, crawl_tasks[t].status) )
             => /\ last'.resp = 400
                /\ crawl_tasks'[t] = crawl_tasks[t]

\* C1 (as stated): the status of a task changes only along the edges of the
\* transition table (start: pending->running, paused->running; pause:
\* running->paused; resume: paused->running; cancel: running->failed,
\* paused->failed), and every other lifecycle request is rejected and leaves the
\* task unchanged.
C1_OnlyTableEdges == [][LifecycleStep(TableEdges)]_vars

\* C1 (amended): the status of a task changes only along the edges of the
\* transition table or, when the commit of a start request fails, from pending
\* or paused to failed; every lifecycle request that the table does not allow is
\* rejected with 400 and leaves every field of the task unchanged.
C1_TableEdgesOrStartFailure ==
    [][LifecycleStep(TableEdges \cup StartFailureEdges)]_vars

\* a pause of a pending task was rejected, and a start has failed a task
C1_Witness ==
    /\ last.op = "pause" /\ last.resp = 400
    /\ Exists(last.task) /\ crawl_tasks[last.task].status = "pending"
    /\ \E u \in 1..Len(crawl_tasks) :
          crawl_tasks[u].status = "failed" /\ crawl_tasks[u].completed_at = None

\* C2: every task whose status is completed or failed has completed_at set.
C2_TerminalHasCompletedAt ==
    \A t \in 1..Len(crawl_tasks) :
        crawl_tasks[t].status \in {"completed", "failed"}
            => crawl_tasks[t].completed_at # None

\* C3: an accepted start sets status=running and started_at=now; an accepted
\* pause sets status=paused and paused_at=now (non-null); an accepted resume
\* sets status=running and paused_at=null; an accepted cancel sets
\* status=failed, error_message="Cancelled by user" and completed_at=now
\* (non-null); each changes nothing else of the task.
C3_Effect(op, old, new) ==
    CASE op = "start"  -> new = [old EXCEPT !.status = "running",
                                            !.started_at = <<now>>]
      [] op = "pause"  -> /\ new = [old EXCEPT !.status = "paused",
                                               !.paused_at = <<now>>]
                          /\ new.paused_at # <<>>
      [] op = "resume" -> new = [old EXCEPT !.status = "running",
                                            !.paused_at = <<>>]
      [] op = "cancel" -> /\ new = [old EXCEPT !.status = "failed",
                                               !.error_message = <<"Cancelled by user">>,
                                               !.completed_at = <<now>>]
                          /\ new.completed_at # <<>>
      [] OTHER -> TRUE

C3_AcceptedRequestEffect ==
    [][ (Served /\ last'.op \in LifecycleOps /\ last'.resp = 200)
          => /\ last'.task \in 1..Len(crawl_tasks)
             /\ Legal(last'.op, crawl_tasks[last'.task].status)
             /\ C3_Effect(last'.op, crawl_tasks[last'.task], crawl_tasks'[last'.task])
      ]_vars

\* a task was started, then paused, then cancelled while paused
C3_Witness ==
    /\ last.op = "cancel" /\ last.resp = 200
    /\ crawl_tasks[last.task].status = "failed"
    /\ crawl_tasks[last.task].paused_at # None
    /\ crawl_tasks[last.task].started_at # None

\* C4: a create request whose limit is outside [1,1000] or whose source type
\* (compared as the handler compares it, without regard to letter case) is none
\* of pixiv, danbooru, gelbooru is rejected, and both tables are the same after
\* it as before.
C4_BadRequest(arg) ==
    \/ arg[2] < 1
    \/ arg[2] > 1000
    \/ \A k \in {"pixiv", "danbooru", "gelbooru"} : lower(arg[1]) # k

C4_RejectedCreateStoresNothing ==
    [][ (Served /\ last'.op = "create" /\ C4_BadRequest(last'.arg))
          => /\ last'.resp \in {400, 422}
             /\ crawl_tasks' = crawl_tasks
             /\ collected_images' = collected_images
      ]_vars

\* a create with limit 1001 was rejected while a task exists already
C4_Witness ==
    /\ last.op = "create" /\ last.resp = 422 /\ last.arg[2] = 1001
    /\ Len(crawl_tasks) >= 1

\* C5: a running task does not stay running forever (its adapter is finite, so
\* it is eventually exhausted or reaches the target, and the task completes).
C5_RunningEventuallyEnds ==
    \A t \in TaskIds :
        (Exists(t) /\ crawl_tasks[t].status = "running")
            ~> (Exists(t) /\ crawl_tasks[t].status # "running")

C8_LifecycleFrame ==
    [][ (Served /\ last'.op \in LifecycleOps)
          => /\ Len(crawl_tasks') = Len(crawl_tasks)
             /\ \A u \in 1..Len(crawl_tasks) :
                   u # last'.task => crawl_tasks'[u] = crawl_tasks[u]
             /\ collected_images' = collected_images
             /\ \A u \in TaskIds :
                   get_collected_images(u, 0, 20)' = get_collected_images(u, 0, 20)
      ]_vars

\* a task with a collected image was cancelled while another task exists
C8_Witness ==
    /\ last.op = "cancel" /\ last.resp = 200
    /\ Len(crawl_tasks) >= 2
    /\ get_collected_images(last.task, 0, 20) # None
    /\ get_collected_images(last.task, 0, 20) # Some(<<>>)

(* ============================ filter claims ============================ *)
KeptByFaceCount(img, b) ==
    \/ img.face_count = <<>>
    \/ (b.min_faces <= img.face_count[1] /\ img.face_count[1] <= b.max_faces)

KeptByResolution(img, b) ==
    \/ img.width = <<>>
    \/ img.height = <<>>
    \/ (img.width[1] >= b.min_width /\ img.height[1] >= b.min_height)

\* C9: the list filter_couples returns is exactly the subsequence, in input
\* order, of the images whose face_count is unknown or within [min, max]; the
\* list filter_by_resolution returns is exactly the subsequence of the images
\* with an unknown dimension or width >= minW and height >= minH; the list
\* passed in is the same after the call as before.
C9_FiltersSelectInOrder ==
    [][ (fTrace' # fTrace)
          => /\ fArg' = fList
             /\ fTrace'[Len(fTrace')] = "couples"
                  => fList' = SelectSeq(fList, LAMBDA img : KeptByFaceCount(img, fBounds))
             /\ fTrace'[Len(fTrace')] = "resolution"
                  => fList' = SelectSeq(fList, LAMBDA img : KeptByResolution(img, fBounds))
      ]_vars

\* filter_couples dropped an image, kept one of unknown and one of known face
\* count, from a list of three
C9_Witness ==
    /\ fTrace = <<"couples">>
    /\ Len(fArg) = 3 /\ Len(fList) = 2
    /\ fList[1].face_count = None
    /\ fList[2].face_count # None

\* C10: filter_couples then filter_by_resolution gives the same list as
\* filter_by_resolution then filter_couples.
C10_FiltersCommute ==
    /\ fTrace = <<"couples", "resolution">>
         => fList = filter_couples(
                       filter_by_resolution(fImages, fBounds.min_width, fBounds.min_height),
                       fBounds.min_faces, fBounds.max_faces)
    /\ fTrace = <<"resolution", "couples">>
         => fList = filter_by_resolution(
                       filter_couples(fImages, fBounds.min_faces, fBounds.max_faces),
                       fBounds.min_width, fBounds.min_height)

\* both filters were applied, each dropped an image and one image survived
C10_Witness ==
    /\ fTrace = <<"couples", "resolution">>
    /\ Len(fImages) = 3 /\ Len(fArg) = 2 /\ Len(fList) = 1

\* C11: filter_couples is idempotent: applied to its own result with the same
\* bounds (min = max = 2 among them) it returns that result unchanged.
C11_FilterCouplesIdempotent ==
    (Len(fTrace) >= 2 /\ fTrace[Len(fTrace)] = "couples"
                      /\ fTrace[Len(fTrace) - 1] = "couples")
        => fList = fArg

\* filter_couples(min = max = 2) dropped one image of three, and was applied
\* again to the two it kept
C11_Witness ==
    /\ fTrace = <<"couples", "couples">>
    /\ fBounds.min_faces = 2 /\ fBounds.max_faces = 2
    /\ Len(fImages) = 3 /\ Len(fArg) = 2 /\ Len(fList) = 2
    /\ \E i \in 1..2 : fList[i].face_count = Some(2)

(* ============================ fetch claims ============================= *)
\* C12: on one crawler instance whose fetches follow one another, each value
\* stamped into _last_request_time is at least rate_limit_delay after the value
\* stamped before it, and the first request of a fresh instance is stamped
\* without a sleep in _rate_limit.
C12_SequentialGap ==
    [][ /\ last_request_time' # last_request_time
           => last_request_time' - last_request_time >= config.rate_limit_delay
        /\ (pc' = "rate_limit_sleep" /\ pc = "rate_limit")
           => ~ (ncalls = 1 /\ attempt = 0)
      ]_vars

\* the second call came right after the first and is sleeping in _rate_limit for
\* what is left of the delay
C12_Witness ==
    /\ pc = "rate_limit_sleep"
    /\ ncalls = 2
    /\ clock - last_request_time > 0
    /\ sleep_until - last_request_time = config.rate_limit_delay

\* the number of leading "429" of a sequence of statuses
RECURSIVE Leading429(_)
Leading429(st) ==
    IF st # <<>> /\ Head(st) = "429" THEN 1 + Leading429(Tail(st)) ELSE 0

\* C13: a fetch whose first k attempts receive 429 (k < max_retries) and whose
\* next attempt receives 200 returns that response, and it spent at least
\* 2^0 + ... + 2^(k-1) = 2^k - 1 seconds in its backoff sleeps; for k = 2 and
\* max_retries = 3 that is at least 3 seconds.
C13_BackoffSum ==
    \A k \in 0..2 :
        ( /\ pc = "returned"
          /\ k < max_retries
          /\ Len(statuses) = k + 1
          /\ Leading429(statuses) = k
          /\ statuses[k + 1] = "200" )
        => /\ result = "response"
           /\ backoff_slept >= Seconds(2 ^ k - 1)
           /\ (k = 2 /\ max_retries = 3) => backoff_slept >= Seconds(3)

\* 429, 429, 200 with max_retries = 3
C13_Witness ==
    /\ pc = "returned"
    /\ max_retries = 3
    /\ statuses = <<"429", "429", "200">>
    /\ result = "response"
    /\ backoff_slept >= Seconds(3)

\* C14: one call of _fetch_with_retry issues at most max_retries requests; it
\* returns the response of the first attempt that receives 200 and issues no
\* request after it; when no attempt receives 200 it returns None (it raises
\* nothing).
C14_BoundedRetries ==
    /\ Len(statuses) <= max_retries
    /\ \A i \in 1..Len(statuses) :
          statuses[i] = "200" => (i = Len(statuses) /\ result = "response")
    /\ pc = "returned" =>
          /\ result \in {"response", "None"}
          /\ result = "response" <=> (\E i \in 1..Len(statuses) : statuses[i] = "200")
          /\ result = "None" => Len(statuses) = max_retries

\* a 429, a timeout and a 500 used up max_retries = 3, and None was returned
C14_Witness ==
    /\ pc = "returned"
    /\ result = "None"
    /\ statuses = <<"429", "timeout", "500">>

\* requests per hour of an instance that dispatches one request every delay
RequestsPerHour(delay) == Seconds(3600) \div delay

\* C20: with its default configuration each adapter's highest sustained request
\* rate, one request per rate_limit_delay, is at or below the limit documented
\* for its source: 2 requests per second for Danbooru (0.6 s anonymous, 0.5 s
\* with an API key), about 100 requests per hour for Pixiv (2.0 s).
C20_DefaultRateWithinDocumentedLimit ==
    RequestsPerHour(config.rate_limit_delay) <= DocumentedRequestsPerHour(crawler)

(* ============================ search claims ============================ *)
\* C7: when a fetch of a search fails after all retries, the search ends with
\* an error reported to its caller, not with a normal list.
C7_FetchFailureIsReported ==
    (sOutcome # "running" /\ sFetchFailed) => sOutcome = "error"

\* C15: every list search() returns, for each of the three adapters and every
\* upstream behaviour, has at most limit records.
C15_AtMostLimit ==
    sOutcome = "list" => Len(sResults) <= sLimit

\* a Danbooru search filled its limit of two over more than one page
C15_Witness ==
    /\ sAdapter = "danbooru"
    /\ sOutcome = "list"
    /\ sRequests >= 2
    /\ sLimit = 2 /\ Len(sResults) = 2

\* C16: one call of search() requests at most 100 pages, for each adapter and
\* every upstream behaviour, and requests no page once the upstream has
\* answered with an empty page.
C16_AtMostHundredPages ==
    [][ /\ sRequests' <= 100
        /\ sEmptySeen => sRequests' = sRequests
      ]_vars

RECURSIVE RecordsOf(_, _)
RecordsOf(adapter, list) ==
    IF list = <<>> THEN <<>>
    ELSE LET item == Head(list)
             url == CASE adapter = "danbooru" ->
                           IF item.file_url = <<>> THEN <<>>
                           ELSE <<MakeAbsolute(item.file_url[1])>>
                      [] adapter = "gelbooru" -> item.file_url
                      [] adapter = "pixiv" -> LargestUrl(item.image_urls)
         IN (IF url = <<>> THEN <<>> ELSE << [url |-> url[1]] >>)
              \o RecordsOf(adapter, Tail(list))

RECURSIVE IsSubseq(_, _)
IsSubseq(xs, ys) ==
    IF xs = <<>> THEN TRUE
    ELSE IF ys = <<>> THEN FALSE
    ELSE IF Head(xs) = Head(ys) THEN IsSubseq(Tail(xs), Tail(ys))
    ELSE IsSubseq(xs, Tail(ys))

\* C18: when the upstream serves a fixed ordered list, addressed by page number
\* and page size or by offset, the records search() returns are a subsequence
\* of that list.
C18_UpstreamOrder ==
    (sOutcome = "list" /\ sUpstream # <<>>)
        => IsSubseq(sResults, RecordsOf(sAdapter, sUpstream[1]))

\* C19: when Pixiv authentication fails, the token endpoint was asked at most
\* once, no search request is sent, and search() ends with an error reported
\* to its caller, not with a normal list.
C19_AuthFailureIsFatal ==
    sAuthFailed => /\ sAuthRequests <= 1
                   /\ sRequests = 0
                   /\ sOutcome = "error"

\* C24: when attempt k (counted from 0) is followed by another attempt, the
\* time slept between the two is 2^k seconds if attempt k received 429, and
\* k + 1 seconds if it received another status, timed out or raised.
C24_BackoffBetweenAttempts ==
    (pc = "acquire" /\ attempt >= 1)
        => slept = (IF statuses[attempt] = "429"
                    THEN Seconds(2 ^ (attempt - 1))
                    ELSE Seconds(attempt))

\* C26: a task whose status is running has paused_at = null.
C26_RunningHasNoPausedAt ==
    \A t \in 1..Len(crawl_tasks) :
        crawl_tasks[t].status = "running" => crawl_tasks[t].paused_at = <<>>

\* no record twice in a list
NoDuplicates(xs) == \A i, j \in 1..Len(xs) : i # j => xs[i] # xs[j]

\* C28: when the upstream serves a fixed list of posts with pairwise distinct
\* URLs, addressed by page number and page size or by offset, one call of
\* search() returns each URL at most once, also when posts are skipped.
C28_NoDuplicateUrl ==
    ( /\ sOutcome = "list"
      /\ sUpstream # <<>>
      /\ NoDuplicates(RecordsOf(sAdapter, sUpstream[1])) )
    => NoDuplicates(sResults)

\* a step of _ensure_authenticated, and whether it sent a token request
EnsureAuthenticatedStep == sOutcome = "auth" /\ sOutcome' # "auth"
TokenRequestSent == sAuthRequests' = sAuthRequests + 1

TokenMissingOrOld ==
    \/ access_token = FALSE
    \/ (token_age # <<>> /\ token_age[1] > 3000)

C21_IdDependsOnlyOnUrl ==
    \A i, j \in 1..Len(built) :
        built[i].url = built[j].url => built[i].id = built[j].id

\* two records of one url with different source, face count and timestamp,
\* and with the md5 of that url as id
C21_Witness ==
    /\ Len(built) = 2
    /\ built[1].url = built[2].url
    /\ built[1].source # built[2].source
    /\ built[1].face_count # built[2].face_count
    /\ built[1].timestamp # built[2].timestamp
    /\ built[1].id = "6612108fdc46b63ac61a6f3604a60b1d"

\* C30: save-as-template succeeds at most once per collected image: once
\* saved_as_template is true it stays true, every later save-as-template
\* request for the image is rejected with an error and changes nothing, and a
\* request naming an image that does not belong to the given task is rejected
\* as not found and changes nothing.
C30_SavedAtMostOnce ==
    [][ /\ Len(collected_images') >= Len(collected_images)
        /\ \A i \in 1..Len(collected_images) :
              collected_images[i].saved_as_template
                 => collected_images'[i].saved_as_template
        /\ (Served /\ last'.op = "save") =>
              LET t == last'.task
                  i == last'.arg[1]
                  belongs == /\ i \in 1..Len(collected_images)
                             /\ collected_images[i].crawl_task_id = t
              IN /\ ~ belongs =>
                       /\ last'.resp = 404
                       /\ collected_images' = collected_images
                       /\ crawl_tasks' = crawl_tasks
                 /\ (belongs /\ collected_images[i].saved_as_template) =>
                       /\ last'.resp = 400
                       /\ collected_images' = collected_images
                       /\ crawl_tasks' = crawl_tasks
                 /\ last'.resp = 200 =>
                       /\ belongs
                       /\ ~ collected_images[i].saved_as_template
                       /\ collected_images'[i].saved_as_template
      ]_vars

\* a second save-as-template of a saved image was rejected
C30_Witness ==
    /\ last.op = "save" /\ last.resp = 400
    /\ collected_images[last.arg[1]].saved_as_template
    /\ collected_images[last.arg[1]].crawl_task_id = last.task

(* ======================= concurrent fetch claims ======================= *)
\* a step in which coroutine c leaves _rate_limit and dispatches its request
Dispatches(c) == co[c].pc # "get" /\ co'[c].pc = "get"

\* C22: under any interleaving of concurrent fetches on one crawler instance,
\* any two requests the instance dispatches are dispatched at least
\* rate_limit_delay apart: each coroutine leaves _rate_limit no earlier than
\* rate_limit_delay after the dispatch before it.
C22_DispatchesApart ==
    [][ \A c \in Coroutines :
           Dispatches(c) => clock' - last_request_time >= config.rate_limit_delay
      ]_vars

SlotsHeld == config.max_concurrent_requests - semaphore
AttemptsInside == {c \in Coroutines : co[c].pc \in InsideSemaphore}
FetchActive(c) == co[c].pc \notin {"idle", "returned", "cancelled"}

\* C23: the number of concurrency slots held equals the number of attempts
\* between acquire and release and never exceeds max_concurrent_requests; a
\* slot is released on every exit (200, other status, timeout, transport
\* error, cancellation), so no slot is held when no fetch is active.
C23_SlotsHeld ==
    /\ SlotsHeld = Cardinality(AttemptsInside)
    /\ SlotsHeld <= config.max_concurrent_requests
    /\ semaphore >= 0
    /\ (\A c \in Coroutines : ~ FetchActive(c)) => SlotsHeld = 0

\* with a single slot: one fetch was cancelled inside the semaphore, and the
\* other, which had to wait for the slot, holds it now
C23_Witness ==
    /\ config.max_concurrent_requests = 1
    /\ \E c, d \in Coroutines :
          /\ co[c].pc = "cancelled" /\ co[c].exit = "cancelled"
          /\ co[d].pc = "get" /\ co[d].attempt = 1
          /\ co[d].exit \in {"timeout", "error", "500"}

\* C27: a coroutine of _fetch_with_retry that sleeps in a retry backoff, after
\* a 429 or after any other failed attempt, holds no concurrency slot.
\* The slots taken from the semaphore are those of the coroutines that are
\* rate limiting or requesting; none is taken by one in a backoff sleep.
C27_NoSlotDuringBackoff ==
    SlotsHeld = Cardinality({c \in Coroutines :
                               co[c].pc \in {"rate_limit", "rate_limit_sleep", "get"}})

(* ===================== concurrent lifecycle claims ===================== *)
\* C29: under any interleaving of concurrent Start, Pause, Resume and Cancel
\* requests on one task, once a Cancel request has returned success the status
\* of the task is "failed" in every later state.
C29_CancelIsFinal ==
    (\E r \in Requests : inflight[r].op = "cancel" /\ inflight[r].resp = 200)
       => crawl_tasks[RaceTask].status = "failed"

====
